---- MODULE Spec2Model ----
(***************************************************************************)
(* A model of the online-model deployment template:                        *)
(*   - InputPVTransformer / OutputPVTransformer                            *)
(*       (src/online_model/transformers/transformer.py)                    *)
(*   - InferenceClient (src/online_model/client.py)                        *)
(*                                                                         *)
(* Python objects are modelled by records:                                 *)
(*   a value is [t, sh, v]: its Python type t, its array shape sh (<<>>    *)
(*   for scalars) and its number v (an array holds v in every cell);       *)
(*   a name (PV or symbol) is the sequence of its characters, so that      *)
(*   str.replace(":", "_") is computed and not assumed;                    *)
(*   a dict is the sequence of its items in insertion order.               *)
(***************************************************************************)
EXTENDS Integers, Sequences, FiniteSets, TLC

VARIABLES
    direction,   \* "input" (InputPVTransformer) or "output" (OutputPVTransformer)
    pv_mapping,  \* the mapping table config[...]: entries in table order
    built,       \* "new" before __init__, then "ok" or "raise"
    symbol_list, \* self.input_list / self.model_output_list
    proto_list,  \* self.proto_list
    raw,         \* the caller's dict handed to transform, as it is now
    raw_before,  \* the same dict as it was when transform was called
    ret,         \* how the last transform call ended
    client,      \* the InferenceClient and the call it is making
    loop         \* the evaluation loop of main: its configuration, its position
                 \* and the locals of the iteration it is in

tvars == <<direction, pv_mapping, built, symbol_list, proto_list, raw, raw_before, ret>>
vars == <<direction, pv_mapping, built, symbol_list, proto_list, raw, raw_before, ret, client, loop>>

(***************************************************************************)
(* Bounds of the model.                                                    *)
(***************************************************************************)
MaxEntries == 2   \* entries of a mapping table
MaxRaw == 2       \* items of a raw map
MaxIter == 2      \* iterations of the evaluation loop

(***************************************************************************)
(* Names.                                                                  *)
(***************************************************************************)
nAB == <<"A", ":", "B">>
nA_B == <<"A", "_", "B">>
nX == <<"X">>
nY == <<"Y">>
Names == {nAB, nA_B, nX}

\* str.replace(":", "_")
Rename(s) == [i \in DOMAIN s |-> IF s[i] = ":" THEN "_" ELSE s[i]]

\* the key of the i-th entry of a mapping table: dict keys are distinct, and
\* no code compares or renames them, so the i-th key is named by its index
TargetKey(i) == i

Max(S) == CHOOSE x \in S : \A y \in S : y <= x
Min(S) == CHOOSE x \in S : \A y \in S : x <= y
Range(s) == {s[i] : i \in DOMAIN s}

(***************************************************************************)
(* Python values.                                                          *)
(***************************************************************************)
PyFloat(v) == [t |-> "float", sh |-> <<>>, v |-> v]
PyInt(v) == [t |-> "int", sh |-> <<>>, v |-> v]
PyStr == [t |-> "str", sh |-> <<>>, v |-> 0]
NpFloat64(v) == [t |-> "np.float64", sh |-> <<>>, v |-> v]
NdArray(sh, v) == [t |-> "ndarray", sh |-> sh, v |-> v]
PyList(sh, v) == [t |-> "list", sh |-> sh, v |-> v]
PyNone == [t |-> "NoneType", sh |-> <<>>, v |-> 0]

(***************************************************************************)
(* Formulas: the text of a formula, as sympify parses it.                  *)
(*   [op |-> "absent"]  the entry has no "formula" key                     *)
(*   [op |-> "empty"]   formula: ""                                        *)
(*   [op |-> "num"]     a numeric literal, e.g. "42"                       *)
(*   [op |-> "sym"]     one identifier, e.g. "A:B"                         *)
(*   [op |-> "add"]     "l + r" of two atoms                               *)
(***************************************************************************)
FAbsent == [op |-> "absent", c |-> 0, l |-> <<>>, r |-> <<>>]
FEmpty == [op |-> "empty", c |-> 0, l |-> <<>>, r |-> <<>>]
FNum(c) == [op |-> "num", c |-> c, l |-> <<>>, r |-> <<>>]
FSym(n) == [op |-> "sym", c |-> 0, l |-> n, r |-> <<>>]
FAddNum(n, c) == [op |-> "add", c |-> c, l |-> n, r |-> <<>>]
FAddSym(n, m) == [op |-> "add", c |-> 0, l |-> n, r |-> m]

\* the identifiers of a formula, as written
Identifiers(f) ==
    IF f.op = "sym" THEN {f.l}
    ELSE IF f.op = "add" THEN {f.l} \cup (IF f.r = <<>> THEN {} ELSE {f.r})
    ELSE {}

(***************************************************************************)
(* Mapping-table entries: [formula, symbols, proto].                       *)
(*   symbols: [kind |-> "absent" | "null" | "list", list |-> <<names>>]    *)
(*   proto:   "absent" (no key), "ca" or "pva"                             *)
(***************************************************************************)
SymAbsent == [kind |-> "absent", list |-> <<>>]
SymNull == [kind |-> "null", list |-> <<>>]
SymList(l) == [kind |-> "list", list |-> l]
Entry(f, s, p) == [formula |-> f, symbols |-> s, proto |-> p]

(***************************************************************************)
(* Construction: InputPVTransformer.__init__, OutputPVTransformer.__init__ *)
(***************************************************************************)
\* AddSymbols with the default the docstring names: "pva" for a missing proto
RECURSIVE AddSymbolsDefaultPva(_, _, _, _)
AddSymbolsDefaultPva(syms, p, il, pl) ==
    IF syms = <<>> THEN [il |-> il, pl |-> pl]
    ELSE IF Head(syms) \in Range(il) THEN AddSymbolsDefaultPva(Tail(syms), p, il, pl)
    ELSE AddSymbolsDefaultPva(Tail(syms), p, Append(il, Head(syms)),
                              Append(pl, IF p = "absent" THEN "pva" ELSE p))

\* the inner loop over one entry's symbols: append a symbol not yet seen,
\* together with the entry's proto, or "ca" when the entry has none
RECURSIVE AddSymbols(_, _, _, _)
AddSymbols(syms, p, il, pl) ==
    IF syms = <<>> THEN [il |-> il, pl |-> pl]
    ELSE IF Head(syms) \in Range(il) THEN AddSymbols(Tail(syms), p, il, pl)
    ELSE AddSymbols(Tail(syms), p, Append(il, Head(syms)),
                    Append(pl, IF p = "absent" THEN "ca" ELSE p))

\* forward: entries without symbols (no key, or None) are skipped
RECURSIVE InputSymbolLoop(_, _, _)
InputSymbolLoop(tbl, il, pl) ==
    IF tbl = <<>> THEN [ok |-> TRUE, exc |-> "", il |-> il, pl |-> pl]
    ELSE LET e == Head(tbl)
             r == IF e.symbols.kind = "list"
                  THEN AddSymbols(e.symbols.list, e.proto, il, pl)
                  ELSE [il |-> il, pl |-> pl]
         IN InputSymbolLoop(Tail(tbl), r.il, r.pl)

\* reverse: an entry without a "symbols" key raises KeyError; iterating over
\* None raises TypeError, which the except KeyError clause lets through
RECURSIVE OutputSymbolLoop(_, _, _)
OutputSymbolLoop(tbl, il, pl) ==
    IF tbl = <<>> THEN [ok |-> TRUE, exc |-> "", il |-> il, pl |-> pl]
    ELSE LET e == Head(tbl)
         IN IF e.symbols.kind = "absent"
            THEN [ok |-> FALSE, exc |-> "KeyError", il |-> <<>>, pl |-> <<>>]
            ELSE IF e.symbols.kind = "null"
            THEN [ok |-> FALSE, exc |-> "TypeError", il |-> <<>>, pl |-> <<>>]
            ELSE LET r == AddSymbols(e.symbols.list, e.proto, il, pl)
                 IN OutputSymbolLoop(Tail(tbl), r.il, r.pl)

\* a parser that takes the empty text too
SympifyAcceptsEmpty(f) == TRUE

\* sp.sympify(formula.replace(":", "_")): the empty text does not parse
SympifyOk(f) == f.op # "empty"

\* the validation loop: value["formula"] raises KeyError when the key is
\* absent, _validate_formulas raises when sympify does
RECURSIVE ValidateLoop(_)
ValidateLoop(tbl) ==
    IF tbl = <<>> THEN ""
    ELSE IF Head(tbl).formula.op = "absent" THEN "KeyError"
    ELSE IF ~SympifyOk(Head(tbl).formula) THEN "Exception"
    ELSE ValidateLoop(Tail(tbl))

\* sp.lambdify(list_renamed, formula): the generated function takes one
\* parameter per renamed symbol, and Python rejects a repeated parameter
LambdifyOk(il) ==
    \A i, j \in DOMAIN il : Rename(il[i]) = Rename(il[j]) => i = j

\* the loop that compiles every entry: sympify, then lambdify over the whole
\* renamed symbol list (no entry: nothing is compiled)
RECURSIVE CompileLoop(_, _)
CompileLoop(tbl, il) ==
    IF tbl = <<>> THEN ""
    ELSE IF Head(tbl).formula.op = "absent" THEN "KeyError"
    ELSE IF ~SympifyOk(Head(tbl).formula) THEN "SympifyError"
    ELSE IF ~LambdifyOk(il) THEN "SyntaxError"
    ELSE CompileLoop(Tail(tbl), il)

Construct(d, tbl) ==
    LET s == IF d = "input" THEN InputSymbolLoop(tbl, <<>>, <<>>)
             ELSE OutputSymbolLoop(tbl, <<>>, <<>>)
        v == ValidateLoop(tbl)
        c == CompileLoop(tbl, s.il)
    IN IF ~s.ok THEN [ok |-> FALSE, exc |-> s.exc, il |-> <<>>, pl |-> <<>>]
       ELSE IF v # "" THEN [ok |-> FALSE, exc |-> v, il |-> <<>>, pl |-> <<>>]
       ELSE IF c # "" THEN [ok |-> FALSE, exc |-> c, il |-> <<>>, pl |-> <<>>]
       ELSE [ok |-> TRUE, exc |-> "", il |-> s.il, pl |-> s.pl]

(***************************************************************************)
(* transform: the coercion loop                                            *)
(***************************************************************************)
\* isinstance(value, (float, int, np.float32)); np.float64 is a float
ScalarTypes == {"float", "int", "np.float32", "np.float64"}
\* isinstance(value, (np.ndarray, list))
ArrayTypes == {"ndarray", "list"}

\* CoerceValue, but a value of another type is left as it is (no else branch)
CoerceValueLenient(x) ==
    IF x.t \in ScalarTypes THEN [ok |-> TRUE, val |-> PyFloat(x.v)]
    ELSE IF x.t \in ArrayTypes THEN [ok |-> TRUE, val |-> NdArray(x.sh, x.v)]
    ELSE [ok |-> TRUE, val |-> x]

\* float(value), np.array(value).astype(float), or the raise of the else branch
CoerceValue(x) ==
    IF x.t \in ScalarTypes THEN [ok |-> TRUE, val |-> PyFloat(x.v)]
    ELSE IF x.t \in ArrayTypes THEN [ok |-> TRUE, val |-> NdArray(x.sh, x.v)]
    ELSE [ok |-> FALSE, val |-> x]

\* for pv, value in dict.items(): each coerced value is stored back into the
\* caller's dict (forward into the item's "value" field, reverse as the item
\* itself); the first value of another type raises and ends the loop
RECURSIVE CoerceLoop(_, _)
CoerceLoop(r, i) ==
    IF i > Len(r) THEN [ok |-> TRUE, raw |-> r]
    ELSE LET c == CoerceValue(r[i].val)
         IN IF c.ok THEN CoerceLoop([r EXCEPT ![i].val = c.val], i + 1)
            ELSE [ok |-> FALSE, raw |-> r]

(***************************************************************************)
(* transform: evaluation of one compiled formula                           *)
(***************************************************************************)
\* pvs_renamed: a later item of the same renamed key replaces an earlier one
HasRenamed(r, name) == \E i \in DOMAIN r : Rename(r[i].key) = Rename(name)
PvsRenamed(r, name) ==
    r[Max({i \in DOMAIN r : Rename(r[i].key) = Rename(name)})].val

\* numpy broadcasting of two shapes
Pad(sh, n) == [i \in 1..n |-> IF i <= n - Len(sh) THEN 1 ELSE sh[i - (n - Len(sh))]]
BroadcastOk(s1, s2) ==
    LET n == IF Len(s1) > Len(s2) THEN Len(s1) ELSE Len(s2)
    IN \A i \in 1..n : Pad(s1, n)[i] = Pad(s2, n)[i] \/ Pad(s1, n)[i] = 1 \/ Pad(s2, n)[i] = 1
Broadcast(s1, s2) ==
    LET n == IF Len(s1) > Len(s2) THEN Len(s1) ELSE Len(s2)
    IN [i \in 1..n |-> IF Pad(s1, n)[i] = 1 THEN Pad(s2, n)[i] ELSE Pad(s1, n)[i]]

\* a + b under numpy: an array result of shape () is a numpy scalar
AddValues(a, b) ==
    IF a.t # "ndarray" /\ b.t # "ndarray"
    THEN [ok |-> TRUE, exc |-> "",
          val |-> IF a.t = "int" /\ b.t = "int" THEN PyInt(a.v + b.v) ELSE PyFloat(a.v + b.v)]
    ELSE IF ~BroadcastOk(a.sh, b.sh)
    THEN [ok |-> FALSE, exc |-> "ValueError", val |-> a]
    ELSE LET sh == Broadcast(a.sh, b.sh)
         IN [ok |-> TRUE, exc |-> "",
             val |-> IF sh = <<>> THEN NpFloat64(a.v + b.v) ELSE NdArray(sh, a.v + b.v)]

\* the value of an identifier of the formula inside the generated function:
\* the argument passed for the parameter of that (renamed) name
IsParam(il, n) == \E i \in DOMAIN il : Rename(il[i]) = Rename(n)
Arg(il, r, n) ==
    PvsRenamed(r, il[CHOOSE i \in DOMAIN il : Rename(il[i]) = Rename(n)])

\* lambdified_formula(*args): an identifier that is no parameter is a
\* NameError when the function runs
Evaluate(f, il, r) ==
    IF f.op = "num" THEN [ok |-> TRUE, exc |-> "", val |-> PyInt(f.c)]
    ELSE IF \E n \in Identifiers(f) : ~IsParam(il, n)
    THEN [ok |-> FALSE, exc |-> "NameError", val |-> PyNone]
    ELSE IF f.op = "sym" THEN [ok |-> TRUE, exc |-> "", val |-> Arg(il, r, f.l)]
    ELSE IF f.r = <<>> THEN AddValues(Arg(il, r, f.l), PyInt(f.c))
    ELSE AddValues(Arg(il, r, f.l), Arg(il, r, f.r))

(***************************************************************************)
(* transform: the post-processing of a result                              *)
(***************************************************************************)
\* ndarray.squeeze(): every dimension of length 1 is dropped
Squeeze(sh) == SelectSeq(sh, LAMBDA d : d # 1)
RECURSIVE Size(_)
Size(sh) == IF sh = <<>> THEN 1 ELSE Head(sh) * Size(Tail(sh))

\* float(x): of an array, only when it holds one element
ToFloat(x) ==
    IF x.t = "ndarray" /\ Size(x.sh) # 1
    THEN [ok |-> FALSE, exc |-> "TypeError", val |-> x]
    ELSE [ok |-> TRUE, exc |-> "", val |-> PyFloat(x.v)]

\* PostProcessInput, but a result that is no array is returned as it is
PostProcessInputNoFloat(x) ==
    IF x.t = "ndarray"
    THEN IF x.sh = <<>> THEN [ok |-> FALSE, exc |-> "IndexError", val |-> x]
         ELSE IF x.sh[Len(x.sh)] = 1
         THEN [ok |-> TRUE, exc |-> "", val |-> NdArray(Squeeze(x.sh), x.v)]
         ELSE [ok |-> TRUE, exc |-> "", val |-> x]
    ELSE [ok |-> TRUE, exc |-> "", val |-> x]

\* InputPVTransformer._transform, lines 171-175
PostProcessInput(x) ==
    IF x.t = "ndarray"
    THEN IF x.sh = <<>> THEN [ok |-> FALSE, exc |-> "IndexError", val |-> x]
         ELSE IF x.sh[Len(x.sh)] = 1
         THEN [ok |-> TRUE, exc |-> "", val |-> NdArray(Squeeze(x.sh), x.v)]
         ELSE [ok |-> TRUE, exc |-> "", val |-> x]
    ELSE ToFloat(x)

\* OutputPVTransformer._transform, lines 340-346
PostProcessOutput(x) ==
    IF x.t = "ndarray"
    THEN IF Len(x.sh) <= 1 THEN ToFloat(NdArray(Squeeze(x.sh), x.v))
         ELSE IF x.sh[Len(x.sh)] = 1
         THEN [ok |-> TRUE, exc |-> "", val |-> NdArray(Squeeze(x.sh), x.v)]
         ELSE [ok |-> TRUE, exc |-> "", val |-> x]
    ELSE ToFloat(x)

PostProcess(d, x) == IF d = "input" THEN PostProcessInput(x) ELSE PostProcessOutput(x)

(***************************************************************************)
(* transform: the loop over the mapping table, and the whole call          *)
(***************************************************************************)
\* how a call ended: a returned dict (value: its items in order), or an
\* exception (exc) raised in stage "coerce", "lookup", "eval" or "post" after
\* n entries had been computed; an exception carries no dict
NoCall == [kind |-> "none", exc |-> "", stage |-> "", n |-> 0, value |-> <<>>]
Return(acc) == [kind |-> "return", exc |-> "", stage |-> "", n |-> Len(acc), value |-> acc]
Raise(exc, stage, acc) == [kind |-> "raise", exc |-> exc, stage |-> stage, n |-> Len(acc), value |-> <<>>]

\* TransformLoop, but an exception ends the loop and what was computed so far
\* is returned (except: log, break)
RECURSIVE TransformLoopReturnsPartial(_, _, _, _, _)
TransformLoopReturnsPartial(d, tbl, il, r, acc) ==
    LET i == Len(acc) + 1
    IN IF i > Len(tbl) THEN Return(acc)
       ELSE IF \E k \in DOMAIN il : ~HasRenamed(r, il[k]) THEN Return(acc)
       ELSE LET e == Evaluate(tbl[i].formula, il, r)
            IN IF ~e.ok THEN Return(acc)
               ELSE LET q == PostProcess(d, e.val)
                    IN IF ~q.ok THEN Return(acc)
                       ELSE TransformLoopReturnsPartial(d, tbl, il, r,
                                Append(acc, [key |-> TargetKey(i), val |-> q.val]))

\* _transform: transformed is local; any exception is logged and re-raised,
\* and only the end of the loop returns transformed
RECURSIVE TransformLoop(_, _, _, _, _)
TransformLoop(d, tbl, il, r, acc) ==
    LET i == Len(acc) + 1
    IN IF i > Len(tbl) THEN Return(acc)
       ELSE IF \E k \in DOMAIN il : ~HasRenamed(r, il[k])
       THEN Raise("KeyError", "lookup", acc)
       ELSE LET e == Evaluate(tbl[i].formula, il, r)
            IN IF ~e.ok THEN Raise(e.exc, "eval", acc)
               ELSE LET q == PostProcess(d, e.val)
                    IN IF ~q.ok THEN Raise(q.exc, "post", acc)
                       ELSE TransformLoop(d, tbl, il, r,
                                Append(acc, [key |-> TargetKey(i), val |-> q.val]))

\* transform: the coercion loop over the caller's dict, then _transform
Transform(d, tbl, il, r) ==
    LET c == CoerceLoop(r, 1)
    IN [raw |-> c.raw,
        ret |-> IF c.ok THEN TransformLoop(d, tbl, il, c.raw, <<>>)
                ELSE Raise("Exception", "coerce", <<>>)]

(***************************************************************************)
(* The inputs the model draws from.                                        *)
(***************************************************************************)
\* sequences of at most n elements of S
SeqUpTo(S, n) == UNION {[1..k -> S] : k \in 0..n}

\* entries of the tables handed to transform: a constant, identities, sums,
\* and an identifier that the entry itself does not declare
TransformEntries ==
    { Entry(FNum(42), SymAbsent, "ca"),
      Entry(FSym(nX), SymList(<<nX>>), "ca"),
      Entry(FSym(nAB), SymList(<<nAB>>), "ca"),
      Entry(FAddNum(nX, 1), SymList(<<nX>>), "ca"),
      Entry(FAddSym(nAB, nX), SymList(<<nAB, nX>>), "ca"),
      Entry(FSym(nX), SymAbsent, "ca") }
TransformTables == SeqUpTo(TransformEntries, MaxEntries)

\* values a caller may hand over: scalars, a string, arrays of several
\* shapes (0-d, (1,), (2,1)), a list
RawValues ==
    { PyFloat(5), PyInt(7), PyStr,
      NdArray(<<>>, 5), NdArray(<<1>>, 5), NdArray(<<2, 1>>, 5), PyList(<<2>>, 7) }

\* a dict: items of distinct keys, in insertion order
RawMaps ==
    { r \in SeqUpTo([key : Names, val : RawValues], MaxRaw) :
        \A i, j \in DOMAIN r : r[i].key = r[j].key => i = j }

\* entries of the tables handed to the constructors: with and without a
\* formula, with and without symbols (shared between entries, repeated inside
\* one entry, or renamed alike), with and without a proto
ConstructFormulas == {FAbsent, FEmpty, FNum(42)}
ConstructSymbols ==
    { SymAbsent, SymNull, SymList(<<nX>>), SymList(<<nY, nX>>),
      SymList(<<nX, nY, nX>>), SymList(<<nAB, nA_B>>) }
Protos == {"absent", "ca", "pva"}
ConstructEntries ==
    { Entry(f, s, p) : f \in ConstructFormulas, s \in ConstructSymbols, p \in Protos }
ConstructTables == SeqUpTo(ConstructEntries, MaxEntries)

Directions == {"input", "output"}

(***************************************************************************)
(* The transformer as a state machine.                                     *)
(***************************************************************************)
\* no loop is running
LoopIdle == [pc |-> "none"]

\* no client exists
ClientIdle ==
    [pc |-> "none", op |-> "none", max_retries |-> 0, total |-> 0, attempts |-> 0,
     history |-> <<>>, delays |-> <<>>, result |-> [kind |-> "none", value |-> ""]]

TInit(tables) ==
    /\ direction \in Directions
    /\ pv_mapping \in tables
    /\ built = "new"
    /\ symbol_list = <<>>
    /\ proto_list = <<>>
    /\ raw = <<>>
    /\ raw_before = <<>>
    /\ ret = NoCall

\* InputPVTransformer(config) / OutputPVTransformer(config)
DoConstruct ==
    /\ built = "new"
    /\ LET c == Construct(direction, pv_mapping)
       IN /\ built' = IF c.ok THEN "ok" ELSE "raise"
          /\ symbol_list' = c.il
          /\ proto_list' = c.pl
    /\ UNCHANGED <<direction, pv_mapping, raw, raw_before, ret, client, loop>>

\* transformer.transform(r), on a transformer that was constructed
DoTransform ==
    /\ built = "ok"
    /\ ret = NoCall
    /\ \E r \in RawMaps :
         LET t == Transform(direction, pv_mapping, symbol_list, r)
         IN /\ raw_before' = r
            /\ raw' = t.raw
            /\ ret' = t.ret
    /\ UNCHANGED <<direction, pv_mapping, built, symbol_list, proto_list, client, loop>>

\* the caller drops the dict and the result of a call (they are locals of one
\* loop iteration); the transformer is then called again
Discard ==
    /\ ret # NoCall
    /\ raw' = <<>>
    /\ raw_before' = <<>>
    /\ ret' = NoCall
    /\ UNCHANGED <<direction, pv_mapping, built, symbol_list, proto_list, client, loop>>

Init == TInit(TransformTables) /\ client = ClientIdle /\ loop = LoopIdle
Next == DoConstruct \/ DoTransform \/ Discard
Spec == Init /\ [][Next]_vars

\* the constructors alone, over a wider set of tables
InitConstruct == TInit(ConstructTables) /\ client = ClientIdle /\ loop = LoopIdle
NextConstruct == DoConstruct
SpecConstruct == InitConstruct /\ [][NextConstruct]_vars

(***************************************************************************)
(* InferenceClient: a requests session whose adapter retries with          *)
(* Retry(total=max_retries, backoff_factor=0.5, status_forcelist=...,      *)
(* allowed_methods=...).  One step sends a request, one step receives what *)
(* the service answers to it.                                              *)
(***************************************************************************)
DefaultMaxRetries == 3
StatusForcelist == {429, 500, 502, 503, 504}
AllowedMethods == {"HEAD", "GET", "POST", "OPTIONS"}

\* the operations of the client and the HTTP method each one uses
Ops == {"health_check", "get_model_info", "get_inputs", "get_outputs", "predict", "predict_batch"}
Method(op) == IF op \in {"predict", "predict_batch"} THEN "POST" ELSE "GET"

\* what the service may answer to one request: a status with a body, or no
\* answer at all (connection error, timeout)
Statuses == {200, 404} \cup StatusForcelist
Bodies == {"b1", "b2"}
Answer(st, b) == [status |-> st, body |-> b]
NoAnswer == [status |-> 0, body |-> "none"]
Answers == {Answer(200, b) : b \in Bodies} \cup {Answer(st, "error") : st \in Statuses \ {200}} \cup {NoAnswer}

\* InferenceClient(base_url, max_retries=m)
NewClient(m) ==
    [pc |-> "idle", op |-> "none", max_retries |-> m, total |-> m, attempts |-> 0,
     history |-> <<>>, delays |-> <<>>, result |-> [kind |-> "none", value |-> ""]]

\* backoff_factor=0.5 (seconds), in milliseconds
BackoffFactorMs == 500

\* Retry.get_backoff_time after n consecutive errors: nothing after the first
\* error, then backoff_factor * 2 ** (n - 1) (the cap of Retry, 120 s, is out
\* of reach of max_retries)
BackoffTime(n) == IF n <= 1 THEN 0 ELSE BackoffFactorMs * 2 ^ (n - 1)

\* Retry.is_retry: the method is allowed and the status is in the forcelist
IsRetry(method, status) == method \in AllowedMethods /\ status \in StatusForcelist

\* Exhausted, one retry short: the last retry is never made
ExhaustedEarly(total) == total - 1 <= 0

\* Retry.increment: one retry less; exhausted once the count is below zero
Exhausted(total) == total - 1 < 0

\* Deliver without raise_for_status(): the body of any response is returned
DeliverNoRaise(op, a) ==
    IF op = "health_check"
    THEN [kind |-> "return", value |-> IF a.status = 200 THEN "True" ELSE "False"]
    ELSE [kind |-> "return", value |-> a.body]

\* the end of an operation that got response a: health_check compares the
\* status with 200, the others raise_for_status() and return response.json()
Deliver(op, a) ==
    IF op = "health_check"
    THEN [kind |-> "return", value |-> IF a.status = 200 THEN "True" ELSE "False"]
    ELSE IF a.status >= 400 THEN [kind |-> "raise", value |-> "HTTPError"]
    ELSE [kind |-> "return", value |-> a.body]

\* Fail without the try/except of health_check: every operation raises
FailRaises(op, exc) == [kind |-> "raise", value |-> exc]

\* the end of an operation whose request raised exc: health_check catches
\* every exception and returns False, the others let it through
Fail(op, exc) ==
    IF op = "health_check" THEN [kind |-> "return", value |-> "False"]
    ELSE [kind |-> "raise", value |-> exc]

\* the client c as one of its operations is entered
Calling(c, op) ==
    [c EXCEPT !.pc = "send", !.op = op, !.total = c.max_retries, !.attempts = 0,
              !.history = <<>>, !.delays = <<>>,
              !.result = [kind |-> "none", value |-> ""]]

\* the caller calls one operation of the client
Call(op) ==
    /\ client.pc = "idle"
    /\ client' = Calling(client, op)
    /\ UNCHANGED <<tvars, loop>>

\* the adapter sends the request (the first attempt, or a retry)
Send ==
    /\ client.pc = "send"
    /\ client' = [client EXCEPT !.pc = "wait", !.attempts = client.attempts + 1]
    /\ UNCHANGED <<tvars, loop>>

\* the adapter gets the service's answer a to the request in flight; before
\* a retry it sleeps for the backoff time (Retry.sleep)
Receive(a) ==
    /\ client.pc = "wait"
    /\ LET h == Append(client.history, a)
           retry == a = NoAnswer \/ IsRetry(Method(client.op), a.status)
       IN client' =
            IF retry /\ ~Exhausted(client.total)
            THEN [client EXCEPT !.pc = "send", !.total = client.total - 1, !.history = h,
                       !.delays = Append(@, BackoffTime(Len(h)))]
            ELSE IF retry
            THEN [client EXCEPT !.pc = "done", !.total = client.total - 1, !.history = h,
                       !.result = Fail(client.op,
                                       IF a = NoAnswer THEN "ConnectionError" ELSE "RetryError")]
            ELSE [client EXCEPT !.pc = "done", !.history = h,
                       !.result = Deliver(client.op, a)]
    /\ UNCHANGED <<tvars, loop>>

\* the caller has the result; the client is ready for the next call
Finish ==
    /\ client.pc = "done"
    /\ client' = [client EXCEPT !.pc = "idle"]
    /\ UNCHANGED <<tvars, loop>>

TIdle ==
    /\ direction = "input"
    /\ pv_mapping = <<>>
    /\ built = "new"
    /\ symbol_list = <<>>
    /\ proto_list = <<>>
    /\ raw = <<>>
    /\ raw_before = <<>>
    /\ ret = NoCall

InitClient == TIdle /\ loop = LoopIdle /\ \E m \in 0..DefaultMaxRetries : client = NewClient(m)
NextClient ==
    \/ \E op \in Ops : Call(op)
    \/ Send
    \/ \E a \in Answers : Receive(a)
    \/ Finish
SpecClient == InitClient /\ [][NextClient]_vars

(***************************************************************************)
(* The evaluation loop: main and run_iteration of online_model/run.py      *)
(* (revision "remote": the model is evaluated by the inference service)    *)
(* and of run.py (revision "local": the model is evaluated in the          *)
(* process).  First the steps of one iteration, as functions.              *)
(***************************************************************************)
Revisions == {"remote", "local"}
Interfaces == {"epics", "k2eg", "test"}

\* input_variables of pv_mapping.yaml: one model input, the sum of two PVs
LoopInputTable == <<Entry(FAddSym(nAB, nX), SymList(<<nAB, nX>>), "ca")>>
InputTransformer == Construct("input", LoopInputTable)

\* output_variables of pv_mapping.yaml: absent, or two output PVs: one for
\* each of two model outputs, both computed from the same model output, or
\* the first computed from two model outputs and the second from one of them
NoOutputVariables == [present |-> FALSE, table |-> <<>>]
OutputVariables(tbl) == [present |-> TRUE, table |-> tbl]
OutputConfigs ==
    { NoOutputVariables,
      OutputVariables(<<Entry(FSym(nY), SymList(<<nY>>), "ca"),
                        Entry(FSym(nX), SymList(<<nX>>), "pva")>>),
      OutputVariables(<<Entry(FSym(nY), SymList(<<nY>>), "ca"),
                        Entry(FAddNum(nY, 1), SymList(<<nY>>), "ca")>>),
      OutputVariables(<<Entry(FAddSym(nY, nX), SymList(<<nY, nX>>), "ca"),
                        Entry(FSym(nY), SymList(<<nY>>), "pva")>>) }
OutputTransformer(cfg) == Construct("output", cfg.table)

\* what reading one PV may give: a value with its timestamp (seconds), no
\* connection within the timeout, or an exception
Timestamps == {100, 101}
Reading(v, ts) == [ok |-> TRUE, val |-> v, ts |-> ts, error |-> ""]
ReadError(e) == [ok |-> FALSE, val |-> PyNone, ts |-> 0, error |-> e]
Readings ==
    {Reading(PyFloat(5), ts) : ts \in Timestamps} \cup {Reading(PyStr, 100)}
        \cup {ReadError("Connection failed"), ReadError("exception")}

\* what writing one PV may give
PutOutcomes == {"ok", "Connection failed", "exception"}

\* time.time() * 1000 when the metrics are logged
WallClockMs == {101000, 102000}

\* the item of a raw dict for PV name and reading x; an error entry holds
\* no "value" and no "posixseconds"
RawItem(name, x) == [key |-> name, val |-> x.val, ts |-> x.ts, error |-> x.error]

\* EPICSInterface.get_input_variables: one entry per PV, an error entry for
\* a PV that could not be read; only an exception is logged
EpicsGet(pvs, o) ==
    [exc |-> "",
     raw |-> [i \in DOMAIN pvs |-> RawItem(pvs[i], o[i])],
     logged |-> \E i \in DOMAIN pvs : o[i].error = "exception"]

\* protos = ["ca"] * len(...) when no protos are given
DefaultProtos(n) == [i \in 1..n |-> "ca"]

\* K2EGInterface.get_input_variables: the first PV that cannot be read
\* raises RuntimeError
K2egGet(pvs, protos, o) ==
    IF Len(protos) # Len(pvs)
    THEN [exc |-> "ValueError", raw |-> <<>>, logged |-> FALSE]
    ELSE IF \E i \in DOMAIN pvs : ~o[i].ok
    THEN [exc |-> "RuntimeError", raw |-> <<>>, logged |-> FALSE]
    ELSE [exc |-> "", raw |-> [i \in DOMAIN pvs |-> RawItem(pvs[i], o[i])], logged |-> FALSE]

\* ForwardTransform, but an error entry counts as the value 0.0 (value.get
\* with a default in place of value["value"])
ForwardTransformDefaultsErrors(r) ==
    Transform("input", LoopInputTable, InputTransformer.il,
              [i \in DOMAIN r |-> IF r[i].error # "" THEN [r[i] EXCEPT !.val = PyFloat(0)]
                                  ELSE r[i]])

\* input_pv_transformer.transform(input_dict_raw): value["value"] of an error
\* entry raises KeyError inside the try of the coercion loop
ForwardTransform(r) ==
    LET t == Transform("input", LoopInputTable, InputTransformer.il, r)
        bad == {i \in DOMAIN r : ~CoerceValue(r[i].val).ok}
    IN IF bad # {} /\ r[Min(bad)].error # ""
       THEN [t EXCEPT !.ret.exc = "KeyError"]
       ELSE t

\* run.py, lines 82-86: the latest timestamp, and the values under the
\* model's input names (which are the PV names)
LocalInputs(pvs, r) ==
    IF \E i \in DOMAIN r : r[i].error # ""
    THEN [exc |-> "KeyError", posixseconds |-> 0, input |-> <<>>]
    ELSE [exc |-> "",
          posixseconds |-> Max({r[i].ts : i \in DOMAIN r}),
          input |-> [i \in DOMAIN pvs |-> [key |-> pvs[i], val |-> r[i].val]]]

\* prediction['outputs'] of the service's answer
OutputsOf(body) ==
    IF body = "b1"
    THEN <<[key |-> nY, val |-> PyFloat(5)], [key |-> nX, val |-> PyFloat(7)]>>
    ELSE <<[key |-> nY, val |-> PyFloat(5)]>>

\* output_pv_transformer.transform(cleaned_output)
ReverseTransform(cfg, out) ==
    Transform("output", cfg.table, OutputTransformer(cfg).il, out)

\* one write: the PV, the value, and how it ended
Put(item, outcome) == [key |-> item.key, val |-> item.val, outcome |-> outcome]

\* EPICSInterface.put_output_variables: every PV is tried; a failure is
\* logged and the loop goes on
EpicsPut(out, o) ==
    [exc |-> "",
     puts |-> [i \in DOMAIN out |-> Put(out[i], o[i])],
     logged |-> \E i \in DOMAIN out : o[i] # "ok"]

\* put_pv: a value that is no float raises TypeError
PutPv(item, outcome) == IF item.val.t # "float" THEN "TypeError" ELSE outcome

\* K2EGInterface.put_output_variables: the first PV that cannot be written
\* raises RuntimeError, and the PVs after it are not written
K2egPut(out, protos, o) ==
    LET failed == {i \in DOMAIN out : PutPv(out[i], o[i]) # "ok"}
    IN IF Len(protos) # Len(out)
       THEN [exc |-> "ValueError", puts |-> <<>>, logged |-> FALSE]
       ELSE IF failed # {}
       THEN [exc |-> "RuntimeError",
             puts |-> [i \in 1..Min(failed) |-> Put(out[i], PutPv(out[i], o[i]))],
             logged |-> FALSE]
       ELSE [exc |-> "",
             puts |-> [i \in DOMAIN out |-> Put(out[i], "ok")],
             logged |-> FALSE]

\* a metric record: the values logged under raw PV names, the timestamps
\* logged under "<pv>_epics_ts", the values logged under the model's input
\* names, the model's outputs, and the timestamp (ms) of the record
MetricRecord(pvs, pv_ts, inputs, outputs, timestamp) ==
    [pvs |-> pvs, pv_ts |-> pv_ts, inputs |-> inputs, outputs |-> outputs,
     timestamp |-> timestamp]

\* mlflow.log_metrics takes numbers only
AreNumbers(items) == \A i \in DOMAIN items : items[i].val.t \in ScalarTypes

\* write_output_and_log, lines 182-204: the record of the remote revision
RemoteRecord(r, outputs, now) ==
    IF \E i \in DOMAIN r : r[i].error # "" \/ ~ToFloat(r[i].val).ok
    THEN [exc |-> "TypeError", record |-> MetricRecord(<<>>, <<>>, <<>>, <<>>, 0)]
    ELSE IF ~AreNumbers(outputs)
    THEN [exc |-> "MlflowException", record |-> MetricRecord(<<>>, <<>>, <<>>, <<>>, 0)]
    ELSE [exc |-> "",
          record |-> MetricRecord([i \in DOMAIN r |-> [key |-> r[i].key, val |-> ToFloat(r[i].val).val]],
                                  [i \in DOMAIN r |-> [key |-> r[i].key, val |-> r[i].ts]],
                                  <<>>, outputs, now)]

\* run.py, lines 103-106: the record of the local revision; timestamp=None
\* makes mlflow take the current time
LocalRecord(interface, posixseconds, inputs, outputs, now) ==
    IF ~AreNumbers(inputs) \/ ~AreNumbers(outputs)
    THEN [exc |-> "MlflowException", record |-> MetricRecord(<<>>, <<>>, <<>>, <<>>, 0)]
    ELSE [exc |-> "",
          record |-> MetricRecord(<<>>, <<>>, inputs, outputs,
                                  IF interface = "epics" THEN posixseconds * 1000 ELSE now)]

(***************************************************************************)
(* The evaluation loop as a state machine.  loop.pc is the step in flight: *)
(* "read", "transform", "predict", "reverse", "write", "metric" (the steps *)
(* of run_iteration), "sleep" (the sleep after an iteration), "delay" (the *)
(* sleep of the except clause of run.py), "exited" (the loop was left and  *)
(* main returns or exits with status 0) or "crashed" (an exception left    *)
(* main).                                                                  *)
(***************************************************************************)
IterationSteps == {"read", "transform", "predict", "reverse", "write", "metric"}
NoError == [stage |-> "", exc |-> ""]

\* run_iteration is entered for the n-th time: its locals are fresh
NewIteration(l, n) ==
    [l EXCEPT !.pc = "read", !.iter = n, !.trace = <<"read">>, !.raw = <<>>,
              !.posixseconds = 0, !.input = <<>>, !.sent = <<>>, !.predicts = 0,
              !.output = <<>>, !.output_pv = <<>>, !.puts = <<>>, !.metrics = <<>>,
              !.log = {}, !.err = NoError]

\* main arrives at "while True" with interface itf and output_variables cfg
NewLoop(rev, itf, cfg) ==
    NewIteration([revision |-> rev, interface |-> itf, output_variables |-> cfg,
                  pc |-> "", iter |-> 0, trace |-> <<>>, raw |-> <<>>,
                  posixseconds |-> 0, input |-> <<>>, sent |-> <<>>, predicts |-> 0,
                  output |-> <<>>, output_pv |-> <<>>, puts |-> <<>>, metrics |-> <<>>,
                  log |-> {}, err |-> NoError, cut |-> ""], 1)

\* the next step of run_iteration begins
Step(l, step) == [l EXCEPT !.pc = step, !.trace = Append(@, step)]

\* an exception leaves run_iteration in step stage: online_model/run.py
\* re-raises it, run.py logs it and sleeps before the next iteration
Failed(l, stage, exc) ==
    IF l.revision = "remote"
    THEN [l EXCEPT !.pc = "crashed", !.err = [stage |-> stage, exc |-> exc]]
    ELSE [l EXCEPT !.pc = "delay", !.err = [stage |-> stage, exc |-> exc],
                   !.log = @ \cup {"main"}]

\* the PVs that are read: input_pv_transformer.input_list, model.input_names
InputPvs == InputTransformer.il

\* evaluate_model_remote(inference_client, input_dict), but the raw dict is
\* handed over
PredictArgumentRaw(input_dict, input_dict_raw) ==
    [i \in DOMAIN input_dict_raw |-> [key |-> i, val |-> input_dict_raw[i].val]]

\* evaluate_model_remote(inference_client, input_dict): what predict is
\* called with
PredictArgument(input_dict, input_dict_raw) == input_dict

\* the record of a finished call is dropped
ClientAtRest(c) == IF c.pc = "none" THEN c ELSE NewClient(c.max_retries)

\* what the service answers to the loop's requests
LoopAnswers ==
    {Answer(200, "b1"), Answer(200, "b2"), Answer(404, "error"), Answer(503, "error"), NoAnswer}

\* interface.get_input_variables(...) ends
ReadDone ==
    /\ loop.pc = "read"
    /\ \E o \in [DOMAIN InputPvs -> Readings] :
         LET g == IF loop.interface = "epics" THEN EpicsGet(InputPvs, o)
                  ELSE K2egGet(InputPvs,
                               IF loop.revision = "remote" THEN InputTransformer.pl
                               ELSE DefaultProtos(Len(InputPvs)), o)
             l1 == [loop EXCEPT !.raw = g.raw,
                                !.log = IF g.logged THEN @ \cup {"read"} ELSE @]
         IN loop' = IF loop.interface = "test"
                    THEN Failed(loop, "read", "NotImplementedError")
                    ELSE IF g.exc # "" THEN Failed(l1, "read", g.exc)
                    ELSE Step(l1, "transform")
    /\ UNCHANGED <<tvars, client>>

\* input_pv_transformer.transform(input_dict_raw) ends; when it returned,
\* evaluate_model_remote calls inference_client.predict
ForwardTransformDone ==
    /\ loop.pc = "transform"
    /\ loop.revision = "remote"
    /\ LET t == ForwardTransform(loop.raw)
           l1 == [loop EXCEPT !.raw = t.raw]
           arg == PredictArgument(t.ret.value, t.raw)
       IN IF t.ret.kind = "raise"
          THEN /\ loop' = Failed([l1 EXCEPT !.log = @ \cup {"transform"}], "transform", t.ret.exc)
               /\ UNCHANGED client
          ELSE /\ loop' = Step([l1 EXCEPT !.input = t.ret.value, !.sent = arg,
                                          !.predicts = @ + 1], "predict")
               /\ client' = Calling(client, "predict")
    /\ UNCHANGED tvars

\* run.py, lines 82-86, end; then model.evaluate(input_dict) is called
LocalInputsDone ==
    /\ loop.pc = "transform"
    /\ loop.revision = "local"
    /\ LET m == LocalInputs(InputPvs, loop.raw)
       IN loop' = IF m.exc # "" THEN Failed(loop, "transform", m.exc)
                  ELSE Step([loop EXCEPT !.posixseconds = m.posixseconds, !.input = m.input,
                                         !.sent = m.input, !.predicts = @ + 1], "predict")
    /\ UNCHANGED <<tvars, client>>

\* AfterPredict, but the reverse transform and the write are made whether or
\* not output_variables are configured
AfterPredictAlwaysWrites(l) ==
    IF l.interface \in {"epics", "k2eg"} THEN Step(l, "reverse") ELSE Step(l, "metric")

\* the step after predict: the reverse transform when output_variables are
\* configured, else the metrics
AfterPredict(l) ==
    IF l.interface \in {"epics", "k2eg"} /\ l.output_variables.present
    THEN Step(l, "reverse")
    ELSE Step(l, "metric")

\* inference_client.predict(input_dict) ends
RemotePredictDone ==
    /\ loop.pc = "predict"
    /\ loop.revision = "remote"
    /\ client.pc = "done"
    /\ loop' = IF client.result.kind = "raise"
               THEN Failed([loop EXCEPT !.log = @ \cup {"predict"}], "predict", client.result.value)
               ELSE AfterPredict([loop EXCEPT !.output = OutputsOf(client.result.value)])
    /\ client' = [client EXCEPT !.pc = "idle"]
    /\ UNCHANGED tvars

\* model.evaluate(input_dict) ends: an output map, or an exception; inputs
\* that are no numbers are not evaluated
LocalEvaluateDone ==
    /\ loop.pc = "predict"
    /\ loop.revision = "local"
    /\ \E ok \in BOOLEAN :
         loop' = IF ok /\ AreNumbers(loop.input)
                 THEN Step([loop EXCEPT !.output = OutputsOf("b1")], "metric")
                 ELSE Failed(loop, "predict", "Exception")
    /\ UNCHANGED <<tvars, client>>

\* output_pv_transformer.transform(cleaned_output) ends
ReverseDone ==
    /\ loop.pc = "reverse"
    /\ LET t == ReverseTransform(loop.output_variables, loop.output)
       IN loop' = IF t.ret.kind = "raise"
                  THEN Failed([loop EXCEPT !.log = @ \cup {"reverse"}], "reverse", t.ret.exc)
                  ELSE Step([loop EXCEPT !.output_pv = t.ret.value], "write")
    /\ UNCHANGED <<tvars, client>>

\* interface.put_output_variables(...) ends
WriteDone ==
    /\ loop.pc = "write"
    /\ \E o \in [DOMAIN loop.output_pv -> PutOutcomes] :
         LET w == IF loop.interface = "epics" THEN EpicsPut(loop.output_pv, o)
                  ELSE K2egPut(loop.output_pv, OutputTransformer(loop.output_variables).pl, o)
             l1 == [loop EXCEPT !.puts = w.puts,
                                !.log = IF w.logged THEN @ \cup {"write"} ELSE @]
         IN loop' = IF w.exc # "" THEN Failed(l1, "write", w.exc) ELSE Step(l1, "metric")
    /\ UNCHANGED <<tvars, client>>

\* mlflow.log_metrics(...) ends; then the loop sleeps
MetricDone ==
    /\ loop.pc = "metric"
    /\ \E now \in WallClockMs :
         LET m == IF loop.revision = "remote" THEN RemoteRecord(loop.raw, loop.output, now)
                  ELSE LocalRecord(loop.interface, loop.posixseconds, loop.input,
                                   loop.output, now)
         IN loop' = IF m.exc # "" THEN Failed(loop, "metric", m.exc)
                    ELSE [loop EXCEPT !.pc = "sleep", !.metrics = Append(@, m.record)]
    /\ UNCHANGED <<tvars, client>>

\* time.sleep(rate) / time.sleep(1) ends: the next iteration begins
SleepDone ==
    /\ loop.pc = "sleep"
    /\ loop.iter < MaxIter
    /\ loop' = NewIteration(loop, loop.iter + 1)
    /\ client' = ClientAtRest(client)
    /\ UNCHANGED tvars

\* time.sleep(5) of the except clause ends: the next iteration begins
DelayDone ==
    /\ loop.pc = "delay"
    /\ loop.iter < MaxIter
    /\ loop' = NewIteration(loop, loop.iter + 1)
    /\ client' = ClientAtRest(client)
    /\ UNCHANGED tvars

\* KeyboardInterrupt is raised in the main thread, wherever it is: inside the
\* try it is caught by "except KeyboardInterrupt" (break, exit(0)); inside
\* the except clause of run.py no clause catches it
Interrupt ==
    /\ loop.pc \in IterationSteps \cup {"sleep", "delay"}
    /\ loop' = IF loop.pc = "delay"
               THEN [loop EXCEPT !.pc = "crashed", !.cut = "delay",
                                 !.err = [stage |-> "delay", exc |-> "KeyboardInterrupt"]]
               ELSE [loop EXCEPT !.pc = "exited", !.cut = loop.pc]
    /\ UNCHANGED <<tvars, client>>

InitLoop ==
    /\ TIdle
    /\ \E rev \in Revisions, itf \in Interfaces, cfg \in OutputConfigs :
         /\ rev = "local" => (itf # "test" /\ cfg = NoOutputVariables)
         /\ loop = NewLoop(rev, itf, cfg)
         /\ client = IF rev = "remote" THEN NewClient(DefaultMaxRetries) ELSE ClientIdle
NextLoop ==
    \/ ReadDone
    \/ ForwardTransformDone
    \/ LocalInputsDone
    \/ (loop.pc = "predict" /\ Send)
    \/ (loop.pc = "predict" /\ \E a \in LoopAnswers : Receive(a))
    \/ RemotePredictDone
    \/ LocalEvaluateDone
    \/ ReverseDone
    \/ WriteDone
    \/ MetricDone
    \/ SleepDone
    \/ DelayDone
    \/ Interrupt
SpecLoop == InitLoop /\ [][NextLoop]_vars

(***************************************************************************)
(* Properties of transform (specification Spec).                           *)
(***************************************************************************)
Called == ret.kind # "none"
Keys(m) == {m[i].key : i \in DOMAIN m}
TargetKeys == {TargetKey(i) : i \in DOMAIN pv_mapping}

\* C1: a transform call, in either direction, returns a map whose key set is
\* exactly the set of targets of the mapping table, or raises and returns no
\* map; it never returns a map of only some of the targets.
C1_AllOrNothing ==
    Called =>
        \/ /\ ret.kind = "return"
           /\ Keys(ret.value) = TargetKeys
           /\ Len(ret.value) = Len(pv_mapping)
        \/ /\ ret.kind = "raise"
           /\ ret.value = <<>>

\* a call that raised after it had computed some, but not all, entries
C1_Witness ==
    /\ ret.kind = "raise"
    /\ ret.n >= 1
    /\ ret.n < Len(pv_mapping)

\* C2: when a symbol of the global symbol vector is absent from the raw map,
\* transform raises and yields no map.
C2_MissingSymbolRaises ==
    (Called /\ \E k \in DOMAIN symbol_list : symbol_list[k] \notin Keys(raw_before))
        => ret.kind = "raise"

\* what the claims call a numeric scalar, and an array or list
IsNumericScalar(x) == x.t \in {"int", "float", "np.float32", "np.float64"}
IsArrayOrList(x) == x.t \in {"ndarray", "list"}
IsCoerced(x) == x.t = "float" \/ x.t = "ndarray"

\* C3: transform coerces every value of the raw map before it evaluates any
\* formula: a value that is neither a numeric scalar nor an array or list makes
\* the call raise in the coercion loop, with no entry computed and no map, and
\* a call that got past the coercion loop holds coerced values only.
C3_CoerceBeforeEvaluate ==
    Called =>
        /\ (\E i \in DOMAIN raw_before :
                ~IsNumericScalar(raw_before[i].val) /\ ~IsArrayOrList(raw_before[i].val))
             => (ret.kind = "raise" /\ ret.stage = "coerce" /\ ret.n = 0 /\ ret.value = <<>>)
        /\ ret.stage # "coerce" => \A i \in DOMAIN raw : IsCoerced(raw[i].val)

\* a call that failed on a string held under a key that is no symbol, while
\* every symbol of a non-empty table was there with a number
C3_Witness ==
    /\ ret.kind = "raise"
    /\ ret.stage = "coerce"
    /\ pv_mapping # <<>>
    /\ symbol_list # <<>>
    /\ \A k \in DOMAIN symbol_list :
          \E i \in DOMAIN raw_before :
             raw_before[i].key = symbol_list[k] /\ IsNumericScalar(raw_before[i].val)
    /\ \E i \in DOMAIN raw_before :
          /\ raw_before[i].val.t = "str"
          /\ \A k \in DOMAIN symbol_list : Rename(raw_before[i].key) # Rename(symbol_list[k])

\* an entry whose formula is the constant "42" and that declares no symbols
IsConstant42(e) == e.formula = FNum(42) /\ e.symbols.kind # "list"

C7_UndeclaredIdentifierRejected ==
    (direction = "input" /\ built = "ok") =>
        \A i \in DOMAIN pv_mapping :
            \A n \in Identifiers(pv_mapping[i].formula) :
                \E k \in DOMAIN symbol_list : Rename(symbol_list[k]) = Rename(n)

\* the result of a formula before post-processing, for a call that got to
\* evaluate it (raw holds the coerced values)
Result(i) == Evaluate(pv_mapping[i].formula, symbol_list, raw).val

\* the post-processing the claim describes: a scalar-shaped result (a scalar,
\* or an array whose dimensions are all 1, the 0-d array among them) becomes a
\* float; otherwise a trailing dimension of 1 is dropped
ScalarShaped(x) == \A k \in DOMAIN x.sh : x.sh[k] = 1
Described(x) ==
    IF ScalarShaped(x) THEN PyFloat(x.v)
    ELSE IF x.sh[Len(x.sh)] = 1 THEN NdArray(SubSeq(x.sh, 1, Len(x.sh) - 1), x.v)
    ELSE x

\* C8: in both directions each result is post-processed by shape: shape (N,1)
\* becomes (N,), a scalar-shaped result (0-d arrays included) becomes a plain
\* float, and no result shape makes the post-processing raise.
C8_PostProcessedByShape ==
    Called =>
        /\ ret.stage # "post"
        /\ ret.kind = "return" =>
              \A i \in DOMAIN pv_mapping : ret.value[i].val = Described(Result(i))

\* C9: transform leaves the caller's raw map as it was: the same keys and the
\* same values, of the same types, whether the call returns or raises.
C9_RawMapUnchanged == Called => raw = raw_before

(***************************************************************************)
(* Properties of construction (specification SpecConstruct).               *)
(***************************************************************************)
HasSymbolList(e) == e.symbols.kind = "list"
Declares(e, n) == HasSymbolList(e) /\ n \in Range(e.symbols.list)
\* the entry that first introduces symbol n, and where in its list
FirstEntry(n) == Min({i \in DOMAIN pv_mapping : Declares(pv_mapping[i], n)})
FirstPlace(n) ==
    LET l == pv_mapping[FirstEntry(n)].symbols.list
    IN Min({k \in DOMAIN l : l[k] = n})
SeenBefore(n, m) ==
    \/ FirstEntry(n) < FirstEntry(m)
    \/ FirstEntry(n) = FirstEntry(m) /\ FirstPlace(n) < FirstPlace(m)

C6_ConstructionRejects ==
    built # "new" =>
        /\ (\E i \in DOMAIN pv_mapping : pv_mapping[i].formula.op \in {"absent", "empty"})
             => built = "raise"
        /\ (direction = "output" /\ \E i \in DOMAIN pv_mapping : ~HasSymbolList(pv_mapping[i]))
             => built = "raise"

\* a forward table rejected only for the empty formula of its last entry
C6_Witness ==
    /\ built = "raise"
    /\ direction = "input"
    /\ Len(pv_mapping) >= 2
    /\ pv_mapping[Len(pv_mapping)].formula.op = "empty"
    /\ \A i \in 1..(Len(pv_mapping) - 1) : pv_mapping[i].formula.op = "num"
    /\ LambdifyOk(InputSymbolLoop(pv_mapping, <<>>, <<>>).il)

(***************************************************************************)
(* Properties of the client (specification SpecClient).                    *)
(***************************************************************************)
IsRetryableFailure(a) == a.status \in {429, 500, 502, 503, 504}
IsSuccess(a) == a.status = 200

\* C10: in a predict call answered by r retryable failures (429, 500, 502,
\* 503, 504) and then a success, r <= max_retries, the client makes exactly
\* r + 1 attempts and returns the body of the success: it goes on after each
\* of the r failures and stops at the success. No call makes more than
\* max_retries + 1 attempts, 4 with the default.
C10_RetryThenSuccess ==
    LET h == client.history
        r == Len(h) - 1
    IN /\ client.attempts <= client.max_retries + 1
       /\ client.max_retries = DefaultMaxRetries => client.attempts <= 4
       /\ (client.op = "predict" /\ client.pc \in {"send", "done"} /\ h # <<>>) =>
            /\ ( /\ \A i \in 1..Len(h) : IsRetryableFailure(h[i])
                 /\ Len(h) <= client.max_retries )
               => (client.pc = "send" /\ client.attempts = Len(h))
            /\ ( /\ \A i \in 1..r : IsRetryableFailure(h[i])
                 /\ IsSuccess(h[r + 1])
                 /\ r <= client.max_retries )
               => /\ client.pc = "done"
                  /\ client.attempts = r + 1
                  /\ client.result = [kind |-> "return", value |-> h[r + 1].body]

\* a predict call answered 503, 503, 200 that returned the body of the 200
C10_Witness ==
    /\ client.op = "predict"
    /\ client.pc = "done"
    /\ Len(client.history) = 3
    /\ client.history[1].status = 503
    /\ client.history[2].status = 503
    /\ client.history[3] = Answer(200, "b2")
    /\ client.attempts = 3
    /\ client.result = [kind |-> "return", value |-> "b2"]

\* C11: a predict_batch request that is answered by a retryable failure status
\* (429, 500, 502, 503, 504) is sent exactly once: the call is over after that
\* one attempt and no second request is made.
C11_BatchSentOnce ==
    ( /\ client.op = "predict_batch"
      /\ client.history # <<>>
      /\ IsRetryableFailure(client.history[1]) )
    => (client.attempts = 1 /\ client.pc = "done")

Last(h) == h[Len(h)]
ValueOps == Ops \ {"health_check"}

C12_Exhausted ==
    /\ client.op = "predict"
    /\ client.pc = "done"
    /\ client.max_retries = 2
    /\ client.history = <<Answer(503, "error"), Answer(503, "error"), Answer(503, "error")>>
    /\ client.result = [kind |-> "raise", value |-> "RetryError"]

\* C13: health_check never raises: it returns True exactly when the service
\* answered with status 200, and False for every other status and for every
\* connection error, timeout or exhausted retry.
C13_HealthCheckNeverRaises ==
    /\ client.op = "health_check" => client.result.kind # "raise"
    /\ (client.op = "health_check" /\ client.pc = "done") =>
          /\ client.result.kind = "return"
          /\ client.result.value \in {"True", "False"}
          /\ client.result.value = "True" <=> Last(client.history).status = 200

\* a health_check whose requests all got no answer, until the retries ran
\* out, returned False
C13_Witness ==
    /\ client.op = "health_check"
    /\ client.pc = "done"
    /\ client.max_retries = 1
    /\ client.history = <<NoAnswer, NoAnswer>>
    /\ client.result = [kind |-> "return", value |-> "False"]

(***************************************************************************)
(* Properties of the evaluation loop (specification SpecLoop).             *)
(***************************************************************************)
IsPrefix(s, t) == Len(s) <= Len(t) /\ \A i \in DOMAIN s : s[i] = t[i]

\* the steps of a whole iteration, in their order in run_iteration
ExpectedSteps(l) ==
    IF l.interface \in {"epics", "k2eg"} /\ l.output_variables.present
    THEN <<"read", "transform", "predict", "reverse", "write", "metric">>
    ELSE <<"read", "transform", "predict", "metric">>

\* the steps of the iteration began in that order, one at a time; one
\* predict call at most, made with the map the forward transform returned
C14_Order ==
    loop.pc # "none" =>
      /\ IsPrefix(loop.trace, ExpectedSteps(loop))
      /\ loop.pc \in IterationSteps => loop.pc = Last(loop.trace)
      /\ loop.predicts <= 1
      /\ loop.predicts = 1 <=> "predict" \in Range(loop.trace)
      /\ loop.predicts = 1 =>
           /\ loop.sent = loop.input
           /\ loop.revision = "remote" =>
                ForwardTransform(loop.raw).ret = Return(loop.sent)
      /\ client.pc \in {"send", "wait"} =>
           (Last(loop.trace) = "predict" /\ client.op = "predict" /\ loop.metrics = <<>>)

\* C14: within every iteration the steps occur in the order read, forward
\* transform, predict, then (when output_variables are configured) reverse
\* transform and write, then metric; predict is called at most once per
\* iteration, with exactly the map the forward transform returned; an
\* iteration begins only when the iteration before it is over (the loop is in
\* its sleep or its delay), so at most one predict call is outstanding.
C14_StepsInOrder ==
    /\ []C14_Order
    /\ [][(loop.pc # "none" /\ loop'.iter # loop.iter) =>
            /\ loop.pc \in {"sleep", "delay"}
            /\ loop'.iter = loop.iter + 1
            /\ loop'.trace = <<"read">>
            /\ client'.pc = "idle" \/ loop.revision = "local"]_vars

\* the second iteration of the remote loop, with output_variables, is over:
\* its six steps were made in order and predict was called once
C14_Witness ==
    /\ loop.pc = "sleep"
    /\ loop.revision = "remote"
    /\ loop.iter = 2
    /\ loop.trace = <<"read", "transform", "predict", "reverse", "write", "metric">>
    /\ loop.predicts = 1
    /\ loop.sent = <<[key |-> TargetKey(1), val |-> PyFloat(10)]>>
    /\ Len(loop.metrics) = 1

\* the iteration ended with a recoverable error: a signal that could not be
\* read, a transform that raised, or a predict that raised
RecoverableError ==
    /\ loop.pc # "none"
    /\ loop.interface # "test"
    /\ loop.err.stage \in {"read", "transform", "predict"}

\* C15: after a recoverable error of an iteration (a signal read failure, a
\* transform error, a predict failure after the retries) the error is logged;
\* under fail-soft (run.py) the loop then waits for its next iteration, under
\* fail-fast (online_model/run.py) no further iteration begins and the
\* process terminates.
C15_FailurePolicy ==
    RecoverableError =>
      /\ loop.log # {}
      /\ loop.revision = "local" => loop.pc = "delay"
      /\ loop.revision = "remote" => loop.pc = "crashed"

\* C16: an interrupt that arrives at any point of the loop (in a step of an
\* iteration, in the sleep between iterations, in the delay after a failed
\* iteration) is caught by the loop: the loop is left, no further iteration
\* begins, and no exception leaves main.
C16_InterruptExitsCleanly ==
    (loop.pc # "none" /\ loop.cut # "") =>
      /\ loop.pc = "exited"
      /\ loop.err.exc # "KeyboardInterrupt"

\* C17: an interrupt cuts no step of an iteration short: when the loop has
\* stopped on an interrupt, the interrupt arrived in the sleep or the delay
\* between two iterations, and every step that had begun was completed.
C17_InterruptBetweenIterations ==
    (loop.pc # "none" /\ loop.cut # "") => loop.cut \in {"sleep", "delay"}

\* the write step of the iteration is over
WriteEnded ==
    /\ loop.pc # "none"
    /\ "write" \in Range(loop.trace)
    /\ loop.pc # "write"
    /\ loop.cut # "write"

\* C18: with output_variables configured, put_output_variables is
\* best-effort on every interface: a PV that cannot be written is logged, the
\* other PVs of the call are still written, nothing is raised to the loop,
\* and the metrics of the iteration are still logged.
C18_WriteBestEffort ==
    WriteEnded =>
      /\ loop.err.stage # "write"
      /\ Len(loop.puts) = Len(loop.output_pv)
      /\ (\E i \in DOMAIN loop.puts : loop.puts[i].outcome # "ok") => "write" \in loop.log
      /\ (loop.pc \in {"sleep", "delay"} /\ loop.cut = "") => Len(loop.metrics) = 1

\* the iteration is over, and no interrupt ended it
IterationEnded ==
    /\ loop.pc \in {"sleep", "delay", "crashed"}
    /\ loop.cut = ""

\* C19: in every iteration in which predict returned an output map, exactly
\* one metric record is logged, with or without output_variables and whether
\* or not the write succeeded; the record holds every model input name with
\* its value and every model output name with its value.
C19_OneMetricRecord ==
    loop.pc # "none" =>
      /\ Len(loop.metrics) <= 1
      /\ (IterationEnded /\ loop.output # <<>>) =>
           /\ Len(loop.metrics) = 1
           /\ loop.metrics[1].inputs = loop.input
           /\ loop.metrics[1].outputs = loop.output

\* the timestamps of the signals read in this iteration
SignalTimestamps == {loop.raw[i].ts : i \in {j \in DOMAIN loop.raw : loop.raw[j].error = ""}}

\* C20: a metric record is timestamped with 1000 times the latest timestamp
\* (seconds) of the signals read in its iteration whenever a signal carried a
\* timestamp: signals stamped 100 and 101 give a record at 101000 ms.
C20_RecordTimestamp ==
    (loop.pc # "none" /\ loop.metrics # <<>> /\ SignalTimestamps # {}) =>
      loop.metrics[1].timestamp = 1000 * Max(SignalTimestamps)

\* the read step of the iteration is over
ReadEnded ==
    /\ loop.pc # "none"
    /\ loop.pc # "read"
    /\ loop.cut # "read"

\* C21: get_input_variables raises nothing and returns one entry for every
\* requested PV, on every interface: a PV that cannot be read gets an error
\* entry of its own, and the other PVs of the call are still read and get
\* their value and timestamp.
C21_ReadPerSignal ==
    (ReadEnded /\ loop.interface \in {"epics", "k2eg"}) =>
      /\ loop.err.stage # "read"
      /\ Len(loop.raw) = Len(InputPvs)
      /\ \A i \in DOMAIN loop.raw :
           /\ loop.raw[i].key = InputPvs[i]
           /\ loop.raw[i].error # "" \/ loop.raw[i].ts \in Timestamps

\* C22: when the config has no output_variables there is no reverse
\* transformer and no iteration calls put_output_variables: no reverse
\* transform and no write begins and nothing is written; a whole iteration is
\* read, forward transform, predict and one metric record.
C22_NoOutputVariablesNoWrite ==
    (loop.pc # "none" /\ ~loop.output_variables.present) =>
      /\ "reverse" \notin Range(loop.trace)
      /\ "write" \notin Range(loop.trace)
      /\ loop.pc \notin {"reverse", "write"}
      /\ loop.puts = <<>>
      /\ loop.output_pv = <<>>
      /\ loop.pc = "sleep" =>
           /\ loop.trace = <<"read", "transform", "predict", "metric">>
           /\ loop.predicts = 1
           /\ Len(loop.metrics) = 1

\* the second iteration of the remote loop without output_variables is
\* over: predict was called, a metric record was logged, nothing was written
C22_Witness ==
    /\ loop.revision = "remote"
    /\ loop.interface = "k2eg"
    /\ ~loop.output_variables.present
    /\ loop.iter = 2
    /\ loop.pc = "sleep"
    /\ loop.trace = <<"read", "transform", "predict", "metric">>
    /\ loop.puts = <<>>
    /\ Len(loop.metrics) = 1

\* C23: the delay before the k-th retry of a call is the base delay doubled
\* k - 1 times: 0.5 s before the first retry, 1 s before the second, 2 s
\* before the third.
C23_BackoffDoubles ==
    client.pc # "none" =>
      \A k \in DOMAIN client.delays : client.delays[k] = BackoffFactorMs * 2 ^ (k - 1)

(***************************************************************************)
(* The renaming of ":" to "_" (specification Spec).                        *)
(***************************************************************************)
\* the value of the raw map's own entry of name n
OwnArg(r, n) == r[CHOOSE j \in DOMAIN r : r[j].key = n].val

\* formula f, each identifier bound to the value of its own entry
EvaluateOwn(f, r) ==
    IF f.op = "sym" THEN [ok |-> TRUE, exc |-> "", val |-> OwnArg(r, f.l)]
    ELSE IF f.r = <<>> THEN AddValues(OwnArg(r, f.l), PyInt(f.c))
    ELSE AddValues(OwnArg(r, f.l), OwnArg(r, f.r))

\* C24: when names of the raw map differ only by ":" versus "_" ("A:B" and
\* "A_B"), each formula of a call that returned was evaluated with each of
\* its symbols bound to the value of the raw map's entry of that very name,
\* never to the value of the entry of another name.
C24_OwnValues ==
    (Called /\ ret.kind = "return") =>
      \A i \in DOMAIN pv_mapping :
        LET f == pv_mapping[i].formula
        IN (f.op \in {"sym", "add"} /\ Identifiers(f) \subseteq Keys(raw)) =>
             Evaluate(f, symbol_list, raw) = EvaluateOwn(f, raw)

(***************************************************************************)
(* More properties of the evaluation loop (specification SpecLoop).        *)
(***************************************************************************)
\* C25: on k2eg, the protos handed to put_output_variables hold one element
\* for every output PV of the map that is written, and the element paired
\* with a PV is the proto of that PV's own output_variables entry, also when
\* output PVs share a symbol or one output PV uses several symbols.
C25_ProtoPerOutputSignal ==
    (loop.pc # "none" /\ loop.interface = "k2eg" /\ "write" \in Range(loop.trace)) =>
      LET protos == OutputTransformer(loop.output_variables).pl
          tbl == loop.output_variables.table
      IN /\ Len(protos) = Len(loop.output_pv)
         /\ \A i \in DOMAIN loop.output_pv :
              /\ loop.output_pv[i].key = TargetKey(i)
              /\ protos[i] = tbl[i].proto

\* the read of an input signal failed in this iteration: the interface
\* raised, or the raw map holds an error entry
ReadFailed ==
    /\ loop.pc # "none"
    /\ \/ loop.err.stage = "read"
       \/ \E i \in DOMAIN loop.raw : loop.raw[i].error # ""

\* C26: in an iteration in which the read of an input signal failed (the
\* interface raised, or returned an error entry for a symbol of the input
\* list) predict is not called: the iteration ends in an error in the read or
\* the forward transform, no request is sent, no output PV is written and no
\* metric record is logged.
C26_NoPredictAfterReadFailure ==
    ReadFailed =>
      /\ loop.predicts = 0
      /\ loop.sent = <<>>
      /\ loop.trace \in {<<"read">>, <<"read", "transform">>}
      /\ client.pc \in {"none", "idle"}
      /\ client.attempts = 0
      /\ loop.puts = <<>>
      /\ loop.metrics = <<>>
      /\ loop.pc \in {"transform", "crashed", "delay", "exited"}
      /\ (loop.pc \in {"crashed", "delay"} /\ loop.cut = "") =>
           loop.err.stage \in {"read", "transform"}

\* on epics the read of "X" gave an error entry and "A:B" was read: the
\* forward transform raised KeyError and the iteration ended before predict
C26_Witness ==
    /\ loop.revision = "remote"
    /\ loop.interface = "epics"
    /\ Len(loop.raw) = 2
    /\ loop.raw[1].error = ""
    /\ loop.raw[2].error = "Connection failed"
    /\ loop.pc = "crashed"
    /\ loop.err = [stage |-> "transform", exc |-> "KeyError"]
    /\ loop.predicts = 0
    /\ client.attempts = 0

====
